---- MODULE Spec2Model ----
(***************************************************************************)
(* A state-machine model of src/prep_asr_data.py: the ZambeziVoice dataset *)
(* accessor and the process() pipeline (feature extraction, archiving,     *)
(* manifest building, vocabulary training, config emission, clean-up).     *)
(* Strings are TLA+ strings; files and directories are records.            *)
(***************************************************************************)
EXTENDS Integers, Sequences, FiniteSets, TLC

VARIABLES
    pc,             \* position of process() ("failed": an exception left it)
    err,            \* the exception that ended the run: [kind, stage]
    args,           \* parsed command line: [src_lang, tgt_lang]
    root_is_dir,    \* <data-root>/<src-lang> is a directory
    tsv,            \* split name -> [exists, rows]: <root>/<split>.tsv
    feature_root,   \* <root>/fbank80: [kind, files], files: utt_id -> n_frames
    zip,            \* <root>/fbank80.zip: [exists, entries]
    audio_paths,    \* get_zip_manifest()[0]: utt_id -> archive pointer
    audio_lengths,  \* get_zip_manifest()[1]: utt_id -> n_frames
    split,          \* index in SPLITS of the loop variable `split` (0: unset)
    dataset,        \* self.data of the dataset built last
    probes,         \* outcome of torchaudio.info for each row probed last
    manifest,       \* the rows assembled for the current split (before filter)
    train_text,     \* accumulated transcripts, each tagged with its split
    out_tsv,        \* split name -> rows of <root>/<split>_<task>.tsv written
    tmp,            \* the NamedTemporaryFile: [exists, disk, pending]
    outputs,        \* names of the other files written (spm model, config)
    done            \* stages completed so far, in order

vars == <<pc, err, args, root_is_dir, tsv, feature_root, zip, audio_paths,
          audio_lengths, split, dataset, probes, manifest, train_text,
          out_tsv, tmp, outputs, done>>

----------------------------------------------------------------------------
(* Bounds of the model *)

\* most rows of train.tsv
MaxRows == 2
\* most pieces an audio_id is concatenated from (specification SpecUttId)
MaxParts == 3
\* characters the temporary file's write buffer holds before it is written out
BufSize == 4

----------------------------------------------------------------------------
(* Program constants *)

MANIFEST_COLUMNS == <<"id", "audio", "n_frames", "tgt_text", "speaker">>

VERSIONS == {2}

SPLITS == <<"train", "dev", "test">>

XX_EN_LANGUAGES == [v \in {1, 2} |-> {"nya", "toi", "loz"}]

EN_XX_LANGUAGES == [v \in {1, 2} |-> IF v = 1 THEN {} ELSE {"nya", "toi", "loz"}]

None == "None"

NoErr == [kind |-> "", stage |-> ""]

EmptyMap == <<>>

----------------------------------------------------------------------------
(* Strings *)

\* s starts with p  (str.startswith)
StartsWith(s, p) == Len(s) >= Len(p) /\ SubSeq(s, 1, Len(p)) = p

\* str.replace(old, ""): every non-overlapping occurrence of old, found in one
\* left-to-right scan, is removed
RECURSIVE Remove(_, _)
Remove(s, old) ==
    IF Len(s) = 0 THEN s
    ELSE IF StartsWith(s, old) THEN Remove(SubSeq(s, Len(old) + 1, Len(s)), old)
    ELSE SubSeq(s, 1, 1) \o Remove(SubSeq(s, 2, Len(s)), old)

\* _id = data["audio_id"].replace(".wav", "")
UttId(audio_id) == Remove(audio_id, ".wav")

----------------------------------------------------------------------------
(* ZambeziVoice *)

\* the assertions of __init__ on version, split and the language pair
ConfigOK(s, source_language, target_language) ==
    /\ 2 \in VERSIONS
    /\ \E i \in 1..Len(SPLITS) : SPLITS[i] = s
    /\ source_language # None
    /\ target_language # None =>
         /\ "en" \in {source_language, target_language}
         /\ IF source_language = "en"
            THEN target_language \in EN_XX_LANGUAGES[2]
            ELSE source_language \in XX_EN_LANGUAGES[2]

\* the outcomes of torchaudio.info(path): it returns, raises RuntimeError, or
\* raises an exception that is no RuntimeError
ProbeOutcomes == {"ok", "RuntimeError", "OtherError"}

\* ProbeLoop with the append moved out of the try block: a row whose probe
\* raised RuntimeError is kept
RECURSIVE ProbeLoop_keepsUnprobed(_, _, _, _)
ProbeLoop_keepsUnprobed(rows, outs, i, acc) ==
    IF i > Len(rows) THEN [kind |-> "", data |-> acc, probed |-> i - 1]
    ELSE IF outs[i] \in {"ok", "RuntimeError"}
    THEN ProbeLoop_keepsUnprobed(rows, outs, i + 1, Append(acc, rows[i]))
    ELSE [kind |-> outs[i], data |-> acc, probed |-> i]

\* ProbeLoop with self.data.insert(0, e) for self.data.append(e)
RECURSIVE ProbeLoop_prepends(_, _, _, _)
ProbeLoop_prepends(rows, outs, i, acc) ==
    IF i > Len(rows) THEN [kind |-> "", data |-> acc, probed |-> i - 1]
    ELSE IF outs[i] = "ok" THEN ProbeLoop_prepends(rows, outs, i + 1, <<rows[i]>> \o acc)
    ELSE IF outs[i] = "RuntimeError" THEN ProbeLoop_prepends(rows, outs, i + 1, acc)
    ELSE [kind |-> outs[i], data |-> acc, probed |-> i]

\* the loop over the rows: a row is appended when the probe returns, skipped
\* when it raises RuntimeError; any other exception leaves the loop
RECURSIVE ProbeLoop(_, _, _, _)
ProbeLoop(rows, outs, i, acc) ==
    IF i > Len(rows) THEN [kind |-> "", data |-> acc, probed |-> i - 1]
    ELSE IF outs[i] = "ok" THEN ProbeLoop(rows, outs, i + 1, Append(acc, rows[i]))
    ELSE IF outs[i] = "RuntimeError" THEN ProbeLoop(rows, outs, i + 1, acc)
    ELSE [kind |-> outs[i], data |-> acc, probed |-> i]

\* ZambeziVoice(root, split, src_lang, tgt_lang): [kind, data, probed], kind the
\* exception raised ("" when the dataset is constructed), data self.data,
\* probed the number of rows probed
ZambeziVoice_init(s, outs) ==
    IF ~ConfigOK(s, args.src_lang, args.tgt_lang)
    THEN [kind |-> "AssertionError", data |-> <<>>, probed |-> 0]
    ELSE IF ~tsv[s].exists
    THEN [kind |-> "AssertionError", data |-> <<>>, probed |-> 0]
    ELSE ProbeLoop(tsv[s].rows, outs, 1, <<>>)

\* __getitem__(n), without the waveform: (sentence, speaker_id, _id)
GetItem(data, n) ==
    [sentence |-> data[n].sentence,
     speaker_id |-> data[n].speaker_name,
     utt_id |-> UttId(data[n].audio_id)]

\* __len__
DatasetLen(data) == Len(data)

----------------------------------------------------------------------------
(* The collaborators imported from examples.speech_to_text.data_utils *)

\* number of frames of the features extracted from an audio file
Frames(audio_id) == Len(audio_id)

\* extract_fbank_features(waveform, sample_rate, feature_root / f"{utt_id}.npy"):
\* writes the feature file, over a file of that name if there is one
extract_fbank_features(files, audio_id, utt_id) ==
    (utt_id :> Frames(audio_id)) @@ files

\* create_zip(feature_root, zip_path): every feature file of the directory
create_zip(files) == [exists |-> TRUE, entries |-> files]

\* get_zip_manifest(zip_path): (utt_id -> pointer, utt_id -> n_frames)
get_zip_manifest(z) ==
    [paths |-> [id \in DOMAIN z.entries |-> "fbank80.zip:" \o id],
     lengths |-> [id \in DOMAIN z.entries |-> z.entries[id]]]

\* filter_manifest_df(df, is_train_split): rows are dropped for the training
\* split only (empty transcript, no frames); otherwise df passes through
filter_manifest_df(df, is_train_split) ==
    IF is_train_split
    THEN SelectSeq(df, LAMBDA r : r.tgt_text # "" /\ r.n_frames > 0)
    ELSE df

----------------------------------------------------------------------------
(* process(args) *)

\* task = f"asr_{src_lang}", or f"st_{src_lang}_{tgt_lang}"
Task ==
    IF args.tgt_lang # None
    THEN "st_" \o args.src_lang \o "_" \o args.tgt_lang
    ELSE "asr_" \o args.src_lang

\* root / f"{split}_{task}.tsv"
ManifestName(s) == s \o "_" \o Task \o ".tsv"

\* the loop variable of `for split in ZambeziVoice.SPLITS`, as an index
NextSplit(i) == (i % Len(SPLITS)) + 1

\* an exception leaves process(): nothing catches it
Raise(kind, stage) ==
    /\ pc' = "failed"
    /\ err' = [kind |-> kind, stage |-> stage]

\* the body of the feature-extraction loop, for rows n..upto of the dataset
RECURSIVE ExtractLoop(_, _, _, _)
ExtractLoop(files, data, n, upto) ==
    IF n > upto THEN files
    ELSE ExtractLoop(
           extract_fbank_features(files, data[n].audio_id, GetItem(data, n).utt_id),
           data, n + 1, upto)

\* ManifestLoop with audio_paths.get(utt_id, "") and audio_lengths.get(utt_id, 0)
RECURSIVE ManifestLoop_get(_, _, _, _)
ManifestLoop_get(rows, data, n, upto) ==
    IF n > upto THEN [kind |-> "", rows |-> rows]
    ELSE LET it == GetItem(data, n)
             known == it.utt_id \in DOMAIN audio_paths
         IN
         ManifestLoop_get(
           Append(rows, [id |-> it.utt_id,
                         audio |-> IF known THEN audio_paths[it.utt_id] ELSE "",
                         n_frames |-> IF known THEN audio_lengths[it.utt_id] ELSE 0,
                         tgt_text |-> it.sentence,
                         speaker |-> it.speaker_id]),
           data, n + 1, upto)

\* the body of the manifest loop: rows are appended until a row's utt_id is
\* no key of audio_paths (KeyError)
RECURSIVE ManifestLoop(_, _, _, _)
ManifestLoop(rows, data, n, upto) ==
    IF n > upto THEN [kind |-> "", rows |-> rows]
    ELSE LET it == GetItem(data, n) IN
         IF it.utt_id \notin DOMAIN audio_paths
         THEN [kind |-> "KeyError", rows |-> rows]
         ELSE ManifestLoop(
                Append(rows, [id |-> it.utt_id,
                              audio |-> audio_paths[it.utt_id],
                              n_frames |-> audio_lengths[it.utt_id],
                              tgt_text |-> it.sentence,
                              speaker |-> it.speaker_id]),
                data, n + 1, upto)

\* characters of the lines held in the buffer, each with its "\n"
RECURSIVE Chars(_)
Chars(lines) ==
    IF lines = <<>> THEN 0 ELSE Len(lines[1].text) + 1 + Chars(Tail(lines))

\* f.write(t + "\n") on the temporary file, opened with the default buffering:
\* the text is held in the buffer, and the buffer is written to the file once
\* it holds more than BufSize characters
Write(f, t) ==
    LET held == Append(f.pending, t) IN
    IF Chars(held) > BufSize
    THEN [exists |-> TRUE, disk |-> f.disk \o held, pending |-> <<>>]
    ELSE [exists |-> TRUE, disk |-> f.disk, pending |-> held]

\* for t in train_text: f.write(t + "\n"), for lines n..upto
RECURSIVE WriteLoop(_, _, _, _)
WriteLoop(f, text, n, upto) ==
    IF n > upto THEN f ELSE WriteLoop(Write(f, text[n]), text, n + 1, upto)

\* CloseTemp for a file created with delete=False
CloseTemp_keeps(f) == [exists |-> TRUE, disk |-> f.disk \o f.pending, pending |-> <<>>]

\* leaving the `with NamedTemporaryFile(...)` block: the file is closed, and
\* closing removes it
CloseTemp(f) == [exists |-> FALSE, disk |-> <<>>, pending |-> <<>>]

NoTemp == [exists |-> FALSE, disk |-> <<>>, pending |-> <<>>]

----------------------------------------------------------------------------
(* Inputs *)

Rows ==
    {[audio_id |-> "a.wav", sentence |-> "hi", speaker_name |-> "s1"],
     [audio_id |-> "b.wav", sentence |-> "", speaker_name |-> "s2"],
     [audio_id |-> "c.wav", sentence |-> "yo", speaker_name |-> "s1"]}

SeqsUpTo(S, n) == UNION {[1..k -> S] : k \in 0..n}

TrainTables == SeqsUpTo(Rows, MaxRows)

\* the rows a dev.tsv or test.tsv is drawn from
EvalRows == {r \in Rows : r.audio_id \in {"a.wav", "b.wav"}}

EvalTables == {<<>>} \cup {<<r>> : r \in EvalRows}

TsvFiles(tables) ==
    {[exists |-> FALSE, rows |-> <<>>]} \cup {[exists |-> TRUE, rows |-> t] : t \in tables}

ArgSets ==
    {[src_lang |-> "nya", tgt_lang |-> None],
     [src_lang |-> "nya", tgt_lang |-> "en"],
     [src_lang |-> "nya", tgt_lang |-> "toi"]}

\* <root>/fbank80 before the run: absent, a plain file, or a directory left
\* by an earlier run, empty or holding a feature file without frames
StagingDirs ==
    {[kind |-> "absent", files |-> EmptyMap],
     [kind |-> "file", files |-> EmptyMap],
     [kind |-> "dir", files |-> EmptyMap],
     [kind |-> "dir", files |-> ("b" :> 0)]}

InitRun ==
    /\ pc = "start"
    /\ err = NoErr
    /\ zip = [exists |-> FALSE, entries |-> EmptyMap]
    /\ audio_paths = EmptyMap
    /\ audio_lengths = EmptyMap
    /\ split = 0
    /\ dataset = <<>>
    /\ probes = <<>>
    /\ manifest = <<>>
    /\ train_text = <<>>
    /\ out_tsv = EmptyMap
    /\ tmp = NoTemp
    /\ outputs = {}
    /\ done = <<>>

Init ==
    /\ InitRun
    /\ root_is_dir \in BOOLEAN
    /\ args \in ArgSets
    /\ feature_root \in StagingDirs
    /\ tsv \in [train : TsvFiles(TrainTables), dev : TsvFiles(EvalTables),
                test : TsvFiles(EvalTables)]

----------------------------------------------------------------------------
(* The steps of process(args) *)

\* lines 147-149
CheckRoot ==
    /\ pc = "start"
    /\ IF root_is_dir
       THEN /\ pc' = "mkdir"
            /\ done' = Append(done, "root_check")
            /\ err' = err
       ELSE /\ Raise("NotADirectoryError", "root_check")
            /\ done' = done
    /\ UNCHANGED <<args, root_is_dir, tsv, feature_root, zip, audio_paths,
                   audio_lengths, split, dataset, probes, manifest, train_text,
                   out_tsv, tmp, outputs>>

\* lines 151-152: feature_root.mkdir(exist_ok=True)
MakeStagingDir ==
    /\ pc = "mkdir"
    /\ IF feature_root.kind = "file"
       THEN /\ Raise("FileExistsError", "mkdir")
            /\ UNCHANGED <<feature_root, done>>
       ELSE /\ feature_root' = [kind |-> "dir", files |-> feature_root.files]
            /\ pc' = "extract_fetch"
            /\ done' = Append(done, "mkdir")
            /\ err' = err
    /\ UNCHANGED <<args, root_is_dir, tsv, zip, audio_paths, audio_lengths,
                   split, dataset, probes, manifest, train_text, out_tsv, tmp,
                   outputs>>

\* lines 153-155: the next split of the first loop, and its dataset
FetchSplit ==
    /\ pc = "extract_fetch"
    /\ split' = NextSplit(split)
    /\ \E outs \in [1..Len(tsv[SPLITS[split']].rows) -> ProbeOutcomes] :
         LET r == ZambeziVoice_init(SPLITS[split'], outs) IN
         /\ probes' = SubSeq(outs, 1, r.probed)
         /\ IF r.kind = ""
            THEN /\ dataset' = r.data
                 /\ pc' = "extract"
                 /\ err' = err
            ELSE /\ Raise(r.kind, "dataset")
                 /\ dataset' = dataset
    /\ UNCHANGED <<args, root_is_dir, tsv, feature_root, zip, audio_paths,
                   audio_lengths, manifest, train_text, out_tsv, tmp, outputs,
                   done>>

\* ExtractFeatures with the loop over the splits left one split early
ExtractFeatures_leavesEarly ==
    /\ pc = "extract"
    /\ \E k \in 0..DatasetLen(dataset) :
         IF k = 0
         THEN /\ feature_root' =
                   [feature_root EXCEPT
                      !.files = ExtractLoop(@, dataset, 1, DatasetLen(dataset))]
              /\ pc' = IF split >= Len(SPLITS) - 1 THEN "zip" ELSE "extract_fetch"
              /\ done' = Append(done, "extract_" \o SPLITS[split])
              /\ err' = err
         ELSE /\ feature_root' =
                   [feature_root EXCEPT !.files = ExtractLoop(@, dataset, 1, k - 1)]
              /\ Raise("ExternalError", "extract")
              /\ done' = done
    /\ UNCHANGED <<args, root_is_dir, tsv, zip, audio_paths, audio_lengths,
                   split, dataset, probes, manifest, train_text, out_tsv, tmp,
                   outputs>>

\* lines 157-160: the features of every row of the split; torchaudio.load or
\* extract_fbank_features may raise at row k (k = 0: none raises)
ExtractFeatures ==
    /\ pc = "extract"
    /\ \E k \in 0..DatasetLen(dataset) :
         IF k = 0
         THEN /\ feature_root' =
                   [feature_root EXCEPT
                      !.files = ExtractLoop(@, dataset, 1, DatasetLen(dataset))]
              /\ pc' = IF split = Len(SPLITS) THEN "zip" ELSE "extract_fetch"
              /\ done' = Append(done, "extract_" \o SPLITS[split])
              /\ err' = err
         ELSE /\ feature_root' =
                   [feature_root EXCEPT !.files = ExtractLoop(@, dataset, 1, k - 1)]
              /\ Raise("ExternalError", "extract")
              /\ done' = done
    /\ UNCHANGED <<args, root_is_dir, tsv, zip, audio_paths, audio_lengths,
                   split, dataset, probes, manifest, train_text, out_tsv, tmp,
                   outputs>>

\* CreateZip inside try/finally: shutil.rmtree(feature_root) runs on failure too
CreateZip_cleansUp ==
    /\ pc = "zip"
    /\ \E ok \in BOOLEAN :
         IF ok
         THEN /\ zip' = create_zip(feature_root.files)
              /\ feature_root' = feature_root
              /\ pc' = "zip_manifest"
              /\ done' = Append(done, "create_zip")
              /\ err' = err
         ELSE /\ Raise("ExternalError", "create_zip")
              /\ feature_root' = [kind |-> "absent", files |-> EmptyMap]
              /\ UNCHANGED <<zip, done>>
    /\ UNCHANGED <<args, root_is_dir, tsv, audio_paths,
                   audio_lengths, split, dataset, probes, manifest, train_text,
                   out_tsv, tmp, outputs>>

\* lines 162-164
CreateZip ==
    /\ pc = "zip"
    /\ \E ok \in BOOLEAN :
         IF ok
         THEN /\ zip' = create_zip(feature_root.files)
              /\ pc' = "zip_manifest"
              /\ done' = Append(done, "create_zip")
              /\ err' = err
         ELSE /\ Raise("ExternalError", "create_zip")
              /\ UNCHANGED <<zip, done>>
    /\ UNCHANGED <<args, root_is_dir, tsv, feature_root, audio_paths,
                   audio_lengths, split, dataset, probes, manifest, train_text,
                   out_tsv, tmp, outputs>>

\* lines 165-166
GetZipManifest ==
    /\ pc = "zip_manifest"
    /\ \E ok \in BOOLEAN :
         IF ok
         THEN /\ audio_paths' = get_zip_manifest(zip).paths
              /\ audio_lengths' = get_zip_manifest(zip).lengths
              /\ pc' = "manifest_fetch"
              /\ done' = Append(done, "zip_manifest")
              /\ err' = err
         ELSE /\ Raise("ExternalError", "zip_manifest")
              /\ UNCHANGED <<audio_paths, audio_lengths, done>>
    /\ UNCHANGED <<args, root_is_dir, tsv, feature_root, zip, split, dataset,
                   probes, manifest, train_text, out_tsv, tmp, outputs>>

\* lines 173-175: the next split of the second loop, its empty manifest and
\* its dataset, built again
FetchSplitManifest ==
    /\ pc = "manifest_fetch"
    /\ split' = NextSplit(split)
    /\ manifest' = <<>>
    /\ \E outs \in [1..Len(tsv[SPLITS[split']].rows) -> ProbeOutcomes] :
         LET r == ZambeziVoice_init(SPLITS[split'], outs) IN
         /\ probes' = SubSeq(outs, 1, r.probed)
         /\ IF r.kind = ""
            THEN /\ dataset' = r.data
                 /\ pc' = "manifest"
                 /\ err' = err
            ELSE /\ Raise(r.kind, "dataset")
                 /\ dataset' = dataset
    /\ UNCHANGED <<args, root_is_dir, tsv, feature_root, zip, audio_paths,
                   audio_lengths, train_text, out_tsv, tmp, outputs, done>>

\* IsTrainSplit with a prefix that "test" has too
IsTrainSplit_t(s) == StartsWith(s, "t")

\* line 182
IsTrainSplit(s) == StartsWith(s, "train")

\* lines 176-187: the rows of the split's manifest, the training transcripts,
\* the filter and the file; torchaudio.load may raise at row k (k = 0: never)
\* and save_df_to_tsv may raise
BuildManifest ==
    /\ pc = "manifest"
    /\ \E k \in 0..DatasetLen(dataset), saved \in BOOLEAN :
         LET upto == IF k = 0 THEN DatasetLen(dataset) ELSE k - 1
             r == ManifestLoop(<<>>, dataset, 1, upto)
             is_train_split == IsTrainSplit(SPLITS[split])
             df == filter_manifest_df(r.rows, is_train_split)
         IN
         /\ manifest' = r.rows
         /\ IF r.kind # ""
            THEN /\ Raise(r.kind, "manifest")
                 /\ UNCHANGED <<train_text, out_tsv, done>>
            ELSE IF k # 0
            THEN /\ Raise("ExternalError", "manifest")
                 /\ UNCHANGED <<train_text, out_tsv, done>>
            ELSE /\ train_text' =
                      IF is_train_split
                      THEN train_text \o
                           [i \in 1..Len(r.rows) |->
                              [text |-> r.rows[i].tgt_text, split |-> SPLITS[split]]]
                      ELSE train_text
                 /\ IF saved
                    THEN /\ out_tsv' = (ManifestName(SPLITS[split]) :> df) @@ out_tsv
                         /\ pc' = IF split = Len(SPLITS) THEN "vocab_open"
                                  ELSE "manifest_fetch"
                         /\ done' = Append(done, "manifest_" \o SPLITS[split])
                         /\ err' = err
                    ELSE /\ Raise("ExternalError", "save_tsv")
                         /\ UNCHANGED <<out_tsv, done>>
    /\ UNCHANGED <<args, root_is_dir, tsv, feature_root, zip, audio_paths,
                   audio_lengths, split, dataset, probes, tmp, outputs>>

\* line 191: the temporary file is created
OpenTemp ==
    /\ pc = "vocab_open"
    /\ \E ok \in BOOLEAN :
         IF ok
         THEN /\ tmp' = [exists |-> TRUE, disk |-> <<>>, pending |-> <<>>]
              /\ pc' = "vocab_write"
              /\ err' = err
         ELSE /\ Raise("ExternalError", "vocab_open")
              /\ tmp' = tmp
    /\ UNCHANGED <<args, root_is_dir, tsv, feature_root, zip, audio_paths,
                   audio_lengths, split, dataset, probes, manifest, train_text,
                   out_tsv, outputs, done>>

\* lines 192-193: the transcripts are written; a write may raise at line k
\* (k = 0: none does), and the exception leaves the with block
WriteTranscripts ==
    /\ pc = "vocab_write"
    /\ \E k \in 0..Len(train_text) :
         IF k = 0
         THEN /\ tmp' = WriteLoop(tmp, train_text, 1, Len(train_text))
              /\ pc' = "gen_vocab"
              /\ err' = err
         ELSE /\ tmp' = CloseTemp(WriteLoop(tmp, train_text, 1, k - 1))
              /\ Raise("ExternalError", "vocab_write")
    /\ UNCHANGED <<args, root_is_dir, tsv, feature_root, zip, audio_paths,
                   audio_lengths, split, dataset, probes, manifest, train_text,
                   out_tsv, outputs, done>>

\* lines 194-199: gen_vocab reads the file by its name and returns or raises;
\* either way the with block is left
GenVocab ==
    /\ pc = "gen_vocab"
    /\ tmp' = CloseTemp(tmp)
    /\ \E ok \in BOOLEAN :
         IF ok
         THEN /\ outputs' = outputs \cup {"spm_" \o Task \o ".model"}
              /\ pc' = "config"
              /\ done' = Append(done, "gen_vocab")
              /\ err' = err
         ELSE /\ Raise("ExternalError", "gen_vocab")
              /\ UNCHANGED <<outputs, done>>
    /\ UNCHANGED <<args, root_is_dir, tsv, feature_root, zip, audio_paths,
                   audio_lengths, split, dataset, probes, manifest, train_text,
                   out_tsv>>

\* lines 201-206
GenConfigYaml ==
    /\ pc = "config"
    /\ \E ok \in BOOLEAN :
         IF ok
         THEN /\ outputs' = outputs \cup {"config_" \o Task \o ".yaml"}
              /\ pc' = "cleanup"
              /\ done' = Append(done, "gen_config")
              /\ err' = err
         ELSE /\ Raise("ExternalError", "gen_config")
              /\ UNCHANGED <<outputs, done>>
    /\ UNCHANGED <<args, root_is_dir, tsv, feature_root, zip, audio_paths,
                   audio_lengths, split, dataset, probes, manifest, train_text,
                   out_tsv, tmp>>

\* line 208: shutil.rmtree(feature_root)
CleanUp ==
    /\ pc = "cleanup"
    /\ \E ok \in BOOLEAN :
         IF ok
         THEN /\ feature_root' = [kind |-> "absent", files |-> EmptyMap]
              /\ pc' = "done"
              /\ done' = Append(done, "rmtree")
              /\ err' = err
         ELSE /\ Raise("ExternalError", "rmtree")
              /\ UNCHANGED <<feature_root, done>>
    /\ UNCHANGED <<args, root_is_dir, tsv, zip, audio_paths, audio_lengths,
                   split, dataset, probes, manifest, train_text, out_tsv, tmp,
                   outputs>>

Next ==
    \/ CheckRoot
    \/ MakeStagingDir
    \/ FetchSplit
    \/ ExtractFeatures
    \/ CreateZip
    \/ GetZipManifest
    \/ FetchSplitManifest
    \/ BuildManifest
    \/ OpenTemp
    \/ WriteTranscripts
    \/ GenVocab
    \/ GenConfigYaml
    \/ CleanUp

Spec == Init /\ [][Next]_vars

----------------------------------------------------------------------------
(* Runs over .wav files whose names are of many shapes: one or two rows in  *)
(* train.tsv, the other split tables empty                                  *)

Pieces == {"a", "b", ".wav"}

RECURSIVE Concats(_)
Concats(k) == IF k = 0 THEN {""} ELSE {p \o t : p \in Pieces, t \in Concats(k - 1)}

\* file names: one to MaxParts pieces, and the extension
AudioIds == {stem \o ".wav" : stem \in UNION {Concats(k) : k \in 1..MaxParts}}

RowOf(audio_id) == [audio_id |-> audio_id, sentence |-> "hi", speaker_name |-> "s1"]

InitUttId ==
    /\ InitRun
    /\ root_is_dir = TRUE
    /\ args = [src_lang |-> "nya", tgt_lang |-> None]
    /\ feature_root = [kind |-> "absent", files |-> EmptyMap]
    /\ \E id \in AudioIds, t \in {<<>>, <<RowOf("a.wav")>>} :
         tsv = [train |-> [exists |-> TRUE, rows |-> <<RowOf(id)>> \o t],
                dev |-> [exists |-> TRUE, rows |-> <<>>],
                test |-> [exists |-> TRUE, rows |-> <<>>]]

SpecUttId == InitUttId /\ [][Next]_vars

----------------------------------------------------------------------------
(* Properties *)

InDone(stage) == \E i \in 1..Len(done) : done[i] = stage

LastDone == IF done = <<>> THEN "" ELSE done[Len(done)]

\* the split whose dataset was constructed last
CurrentSplit == SPLITS[split]

\* a dataset has just been constructed for CurrentSplit
Constructed == pc \in {"extract", "manifest"}

\* the manifest of CurrentSplit has just been assembled and written
Written == pc \in {"manifest_fetch", "vocab_open"} /\ LastDone = "manifest_" \o CurrentSplit

\* the exception of the run was raised by ZambeziVoice.__init__
FailedInInit == pc = "failed" /\ err.stage = "dataset"

\* C1: a run that completes leaves no staging directory; a run that fails
\* after the staging directory was created leaves the staging directory, its
\* feature files and every output written so far, and runs no clean-up
StagingKeptOnFailure ==
    /\ pc = "done" => feature_root.kind = "absent"
    /\ (pc = "failed" /\ InDone("mkdir")) =>
         /\ feature_root.kind = "dir"
         /\ ~InDone("rmtree")
         /\ InDone("create_zip") =>
              /\ zip.exists
              /\ DOMAIN zip.entries \subseteq DOMAIN feature_root.files
         /\ \A i \in 1..Len(SPLITS) :
              InDone("manifest_" \o SPLITS[i]) => ManifestName(SPLITS[i]) \in DOMAIN out_tsv
         /\ InDone("gen_vocab") => ("spm_" \o Task \o ".model") \in outputs
         /\ InDone("gen_config") => ("config_" \o Task \o ".yaml") \in outputs

StagingKeptOnFailure_witness ==
    /\ pc = "failed"
    /\ err.stage = "create_zip"
    /\ feature_root.kind = "dir"
    /\ DOMAIN feature_root.files # {}

\* C2: the temporary file exists only between its creation and the end of the
\* with block: not after gen_vocab returned, not after a failed write, not
\* after gen_vocab raised
TempFileRemoved ==
    /\ pc \notin {"vocab_write", "gen_vocab"} => ~tmp.exists
    /\ InDone("gen_vocab") => ~tmp.exists
    /\ (pc = "failed" /\ err.stage \in {"vocab_write", "gen_vocab"}) => ~tmp.exists

TempFileRemoved_witness ==
    /\ pc = "failed"
    /\ err.stage = "gen_vocab"
    /\ train_text # <<>>
    /\ ~tmp.exists

\* C3: every row of every manifest written names an utterance the archive
\* holds, with the pointer and the frame count the archive gives for it
ManifestResolvesInArchive ==
    \A name \in DOMAIN out_tsv : \A i \in 1..Len(out_tsv[name]) :
        LET row == out_tsv[name][i] IN
        /\ zip.exists
        /\ row.id \in DOMAIN zip.entries
        /\ row.audio = "fbank80.zip:" \o row.id
        /\ row.audio = audio_paths[row.id]
        /\ row.n_frames = zip.entries[row.id]
        /\ row.n_frames = audio_lengths[row.id]

\* a run completes with a manifest row whose features were left in the staging
\* directory by an earlier run (no first-pass probe of that row succeeded)
ManifestResolvesInArchive_witness ==
    /\ pc = "done"
    /\ \E name \in DOMAIN out_tsv : \E i \in 1..Len(out_tsv[name]) :
         out_tsv[name][i].n_frames = 0

\* C4: a constructed dataset is no longer than its split table, and as long
\* exactly when every probe succeeded
DatasetLenBound ==
    Constructed =>
      /\ Len(probes) = Len(tsv[CurrentSplit].rows)
      /\ DatasetLen(dataset) <= Len(tsv[CurrentSplit].rows)
      /\ DatasetLen(dataset) = Len(tsv[CurrentSplit].rows)
           <=> \A i \in 1..Len(probes) : probes[i] = "ok"

DatasetLenBound_witness ==
    /\ pc = "manifest"
    /\ Len(tsv[CurrentSplit].rows) = 2
    /\ DatasetLen(dataset) = 1

\* the rows whose probe returned, in table order
ProbedRows(rows, outs) ==
    LET idx == SelectSeq([i \in 1..Len(rows) |-> i], LAMBDA i : outs[i] = "ok")
    IN [j \in 1..Len(idx) |-> rows[idx[j]]]

\* C5 as stated: no probe failure, of whatever kind, ends the run
ProbeFailureNeverAborts ==
    FailedInInit => err.kind = "AssertionError"

\* C5 amended: a probe that raises RuntimeError excludes its row and the
\* construction goes on, the rows kept being in table order; construction is
\* left only by a probe that raises another exception
RuntimeErrorProbeSkipsRow ==
    /\ Constructed =>
         /\ Len(probes) = Len(tsv[CurrentSplit].rows)
         /\ \A i \in 1..Len(probes) : probes[i] \in {"ok", "RuntimeError"}
         /\ dataset = ProbedRows(tsv[CurrentSplit].rows, probes)
    /\ (FailedInInit /\ err.kind # "AssertionError") =>
         /\ probes # <<>>
         /\ probes[Len(probes)] \notin {"ok", "RuntimeError"}
         /\ \A i \in 1..(Len(probes) - 1) : probes[i] \in {"ok", "RuntimeError"}

RuntimeErrorProbeSkipsRow_witness ==
    /\ pc = "extract"
    /\ Len(probes) = 2
    /\ probes[1] = "RuntimeError"
    /\ probes[2] = "ok"
    /\ dataset = <<tsv[CurrentSplit].rows[2]>>

\* C6: a missing root directory or split file ends the run with a
\* directory/file-not-found error, before any row of the split is read
MissingPathIsNotFoundError ==
    (pc = "failed" /\ (err.stage = "root_check"
                       \/ (err.stage = "dataset" /\ ~tsv[CurrentSplit].exists))) =>
      /\ err.kind \in {"NotADirectoryError", "FileNotFoundError"}
      /\ err.stage = "dataset" => probes = <<>>

\* position of the last "." of s that is not its first character, or 0
RECURSIVE LastDot(_, _)
LastDot(s, i) ==
    IF i <= 1 THEN 0 ELSE IF SubSeq(s, i, i) = "." THEN i ELSE LastDot(s, i - 1)

\* s without its trailing file extension
WithoutExtension(s) ==
    IF LastDot(s, Len(s)) = 0 THEN s ELSE SubSeq(s, 1, LastDot(s, Len(s)) - 1)

\* C7: the utterance id of a row is its audio_id without the trailing file
\* extension, and rows of a split with distinct audio_id have distinct ids
UttIdIsAudioIdWithoutExtension ==
    Written =>
      /\ Len(manifest) = DatasetLen(dataset)
      /\ \A i \in 1..Len(manifest) :
           manifest[i].id = WithoutExtension(dataset[i].audio_id)
      /\ \A i, j \in 1..Len(manifest) :
           dataset[i].audio_id # dataset[j].audio_id => manifest[i].id # manifest[j].id

\* r is s with some rows left out
RECURSIVE IsSubSeq(_, _)
IsSubSeq(r, s) ==
    IF r = <<>> THEN TRUE
    ELSE IF s = <<>> THEN FALSE
    ELSE IF Head(r) = Head(s) THEN IsSubSeq(Tail(r), Tail(s))
    ELSE IsSubSeq(r, Tail(s))

\* C8: the dev and test manifests are written as assembled; the train manifest
\* is written with rows left out and none added; no split but train adds to
\* the training transcripts
FilterOnlyOnTrain ==
    /\ Written =>
         /\ ManifestName(CurrentSplit) \in DOMAIN out_tsv
         /\ CurrentSplit \in {"dev", "test"} => out_tsv[ManifestName(CurrentSplit)] = manifest
         /\ CurrentSplit = "train" => IsSubSeq(out_tsv[ManifestName(CurrentSplit)], manifest)
    /\ \A i \in 1..Len(train_text) : train_text[i].split = "train"

FilterOnlyOnTrain_witness ==
    /\ Written
    /\ CurrentSplit = "test"
    /\ \E i \in 1..Len(manifest) : manifest[i].tgt_text = ""
    /\ out_tsv[ManifestName("test")] = manifest

\* C9: when gen_vocab is called the temporary file holds the transcript of
\* every row of the train dataset, in order, and no other transcript
VocabInputIsTrainText ==
    /\ \A i \in 1..Len(train_text) : train_text[i].split = "train"
    /\ (Written /\ CurrentSplit = "train") =>
         train_text = [i \in 1..DatasetLen(dataset) |->
                         [text |-> dataset[i].sentence, split |-> "train"]]
    /\ pc = "gen_vocab" => (tmp.exists /\ tmp.disk = train_text)

StageOrder ==
    <<"root_check", "mkdir", "extract_train", "extract_dev", "extract_test",
      "create_zip", "zip_manifest", "manifest_train", "manifest_dev",
      "manifest_test", "gen_vocab", "gen_config", "rmtree">>

\* C10: the stages complete in the one fixed order; the archive exists only
\* after the features of all three splits were extracted, and a manifest only
\* after the archive manifest was computed
StagesInFixedOrder ==
    /\ Len(done) <= Len(StageOrder)
    /\ done = SubSeq(StageOrder, 1, Len(done))
    /\ zip.exists => InDone("extract_test")
    /\ (audio_paths # EmptyMap \/ out_tsv # EmptyMap) => InDone("zip_manifest")
    /\ (tmp.exists \/ outputs # {}) => InDone("manifest_test")
    /\ pc = "done" <=> InDone("rmtree")

StagesInFixedOrder_witness ==
    /\ pc = "done"
    /\ done = StageOrder
    /\ out_tsv # EmptyMap

====
